---- MODULE Spec2Model ----
(***************************************************************************)
(* Model of src/main.py: one run of the pull-request review script.        *)
(* main() checks the environment, fetches the changed files of the pull    *)
(* request, sends every reviewable diff to the completion API (one retry), *)
(* and posts one review.  Every blocking call to an external service is    *)
(* one step of the model; the replies of the services are the inputs.      *)
(***************************************************************************)
EXTENDS Integers, Sequences, FiniteSets, TLC

\* Bounds of the model.
MaxFiles == 3
MaxComments == 1

\* constants.MAX_TOKENS: the size budget of the filter (its value is set in
\* salacious_code_reviews/constants.py; patch sizes are chosen around it).
MAX_TOKENS == 2

\* item.patch is modelled by len(item.patch); None stands for "patch is None".
None == -1

VARIABLES
    env,            \* os.environ: the four variables main reads
    pc,             \* position of the run
    changed_files,  \* pr.get_files()
    idx,            \* position of the for loop over changed_files
    comments,       \* do_code_review: comments (list of json.dumps texts)
    skipped_files,  \* do_code_review: skipped_files
    calls,          \* history: the calls made to the two external services
    exit_status,    \* process exit status, -1 while running
    exc,            \* the exception that ended the run, "" if none
    raised_in       \* the function the exception was raised in

vars == <<env, pc, changed_files, idx, comments, skipped_files, calls,
          exit_status, exc, raised_in>>

----------------------------------------------------------------------------
\* Environment

\* GITHUB_REF: unset/empty, a pull-request ref, a branch ref.
RefValues == {"", "refs/pull/7/merge", "refs/heads/main"}

\* os.getenv("GITHUB_REF").split("/")[2]
RefSegment2(ref) == IF ref = "refs/pull/7/merge" THEN "7" ELSE "main"

\* int(s) succeeds only on a decimal literal
IntParses(s) == \E n \in 0..9 : ToString(n) = s

Envs == [OPENAI_API_KEY : BOOLEAN, GITHUB_TOKEN : BOOLEAN,
         GITHUB_REF : RefValues, GITHUB_REPOSITORY : BOOLEAN]

----------------------------------------------------------------------------
\* Changed files

FileName(i) == "f" \o ToString(i) \o ".py"

\* A patch is absent, exactly at the budget, or one over it.
PatchValues == {None, MAX_TOKENS, MAX_TOKENS + 1}

\* The lists pr.get_files() can return: distinct filenames, any patches.
FileLists ==
    UNION { { [i \in 1..n |-> [filename |-> FileName(i), patch |-> p[i]]] :
              p \in [1..n -> PatchValues] } : n \in 0..MaxFiles }

----------------------------------------------------------------------------
\* Comment values and their text forms

\* A position as json.loads returns it: an int, or None for JSON null.
PyInt(n) == [py |-> "int", n |-> n]
PyNone == [py |-> "None", n |-> 0]
PyPositions == {PyInt(1), PyNone}

CommentsOf(filename) == [path : {filename}, position : PyPositions]

RECURSIVE SeqsUpTo(_, _)
SeqsUpTo(S, n) ==
    IF n = 0 THEN {<<>>}
    ELSE LET shorter == SeqsUpTo(S, n - 1)
         IN  shorter \cup { Append(s, x) : s \in shorter, x \in S }

\* json.dumps of one value: an int as its digits, None as null.
json_dumps_value(p) == IF p.py = "None" THEN "null" ELSE ToString(p.n)

\* json.dumps(diff_comment["comments"]): the text, one token group per comment.
json_dumps(cs) ==
    [i \in 1..Len(cs) |->
        [path |-> cs[i].path, position |-> json_dumps_value(cs[i].position)]]

\* ast.literal_eval accepts the text iff every token is a Python literal;
\* null is a name, not a literal (ValueError: malformed node or string).
literal_eval_ok(text) == \A i \in 1..Len(text) : IntParses(text[i].position)

literal_eval_value(tok) == PyInt(CHOOSE n \in 0..9 : ToString(n) = tok)

literal_eval(text) ==
    [i \in 1..Len(text) |->
        [path |-> text[i].path, position |-> literal_eval_value(text[i].position)]]

----------------------------------------------------------------------------
\* submit_to_gpt

\* What one call of openai.ChatCompletion.create can give.
\*   api_error    raises openai.APIError
\*   other_error  raises an exception that is not an openai.APIError
\*   not_json     content is not JSON text
\*   object       content is a JSON object, with or without "comments"
\*   array        content is a JSON array (no element equal to "comments")
\*   string       content is a JSON string that contains the text comments
\*   scalar       content is a JSON number, true, false or null
Replies(filename) ==
    { [kind |-> k, has |-> FALSE, comments |-> <<>>] :
        k \in {"api_error", "other_error", "not_json", "object", "array",
               "string", "scalar"} }
    \cup { [kind |-> "object", has |-> TRUE, comments |-> cs] :
             cs \in SeqsUpTo(CommentsOf(filename), MaxComments) }

EmptyDict == [type |-> "dict", has |-> FALSE, comments |-> <<>>]

\* The result of submit_to_gpt(code) for a reply: raised, or the value returned.
submit_to_gpt(reply) ==
    CASE reply.kind = "other_error" ->
            \* not matched by "except openai.APIError": leaves the function
            [raised |-> TRUE, value |-> EmptyDict]
      [] reply.kind = "api_error" ->
            \* logged; completion is unbound, the NameError is caught by
            \* "except Exception" and review stays {}
            [raised |-> FALSE, value |-> EmptyDict]
      [] reply.kind = "not_json" ->
            [raised |-> FALSE, value |-> EmptyDict]
      [] reply.kind = "object" ->
            [raised |-> FALSE,
             value |-> [type |-> "dict", has |-> reply.has,
                        comments |-> reply.comments]]
      [] reply.kind = "array" ->
            [raised |-> FALSE,
             value |-> [type |-> "list", has |-> FALSE, comments |-> <<>>]]
      [] reply.kind = "string" ->
            [raised |-> FALSE,
             value |-> [type |-> "str", has |-> FALSE, comments |-> <<>>]]
      [] OTHER ->
            [raised |-> FALSE,
             value |-> [type |-> "scalar", has |-> FALSE, comments |-> <<>>]]

\* "comments" in diff_comment: key test on a dict, membership on a list,
\* substring test on a str, TypeError on anything else.
InRaises(v) == v.type = "scalar"
InComments(v) ==
    CASE v.type = "dict" -> v.has
      [] v.type = "list" -> FALSE
      [] v.type = "str" -> TRUE
      [] OTHER -> FALSE

\* diff_comment["comments"]: TypeError unless diff_comment is a dict.
IndexRaises(v) == v.type # "dict"

----------------------------------------------------------------------------
\* Filter of do_code_review

Filter_strict(item) ==
    IF item.patch = None THEN "SkippedEmpty"
    ELSE IF item.patch >= MAX_TOKENS THEN "SkippedTooLarge"
    ELSE "Reviewable"

Filter(item) ==
    IF item.patch = None THEN "SkippedEmpty"
    ELSE IF item.patch > MAX_TOKENS THEN "SkippedTooLarge"
    ELSE "Reviewable"

----------------------------------------------------------------------------
\* History records

Call(op, file, result, cs, event, body) ==
    [op |-> op, file |-> file, result |-> result, comments |-> cs,
     event |-> event, body |-> body]

HostCall(op) == Call(op, 0, "ok", <<>>, "", <<>>)
FailedHostCall(op) == Call(op, 0, "raise", <<>>, "", <<>>)
CompletionCall(file, result, cs) ==
    Call("ChatCompletion.create", file, result, cs, "", <<>>)

----------------------------------------------------------------------------
\* Ends of the run

Exit1 ==
    /\ pc' = "exited"
    /\ exit_status' = 1
    /\ exc' = "SystemExit"

Raise(e, fn) ==
    /\ pc' = "crashed"
    /\ exit_status' = 1
    /\ exc' = e
    /\ raised_in' = fn

----------------------------------------------------------------------------
Init ==
    /\ env \in Envs
    /\ pc = "set_openai_key"
    /\ changed_files = <<>>
    /\ idx = 1
    /\ comments = <<>>
    /\ skipped_files = <<>>
    /\ calls = <<>>
    /\ exit_status = -1
    /\ exc = ""
    /\ raised_in = ""

set_openai_key ==
    /\ pc = "set_openai_key"
    /\ IF ~env.OPENAI_API_KEY
       THEN Exit1 /\ raised_in' = "set_openai_key"
       ELSE pc' = "get_github_session" /\ UNCHANGED <<exit_status, exc, raised_in>>
    /\ UNCHANGED <<env, changed_files, idx, comments, skipped_files, calls>>

get_github_session ==
    /\ pc = "get_github_session"
    /\ IF ~env.GITHUB_TOKEN
       THEN Exit1 /\ raised_in' = "get_github_session"
       ELSE pc' = "get_repo_and_pr" /\ UNCHANGED <<exit_status, exc, raised_in>>
    /\ UNCHANGED <<env, changed_files, idx, comments, skipped_files, calls>>

get_repo_and_pr_unchecked ==
    /\ pc = "get_repo_and_pr"
    /\ IF env.GITHUB_REF = ""
       THEN Exit1 /\ raised_in' = "get_repo_and_pr"
       ELSE IF ~IntParses(RefSegment2(env.GITHUB_REF))
       THEN Raise("ValueError", "get_repo_and_pr")
       ELSE pc' = "do_code_review" /\ UNCHANGED <<exit_status, exc, raised_in>>
    /\ UNCHANGED <<env, changed_files, idx, comments, skipped_files, calls>>

get_repo_and_pr ==
    /\ pc = "get_repo_and_pr"
    /\ IF env.GITHUB_REF = ""
       THEN Exit1 /\ raised_in' = "get_repo_and_pr"
       ELSE IF ~env.GITHUB_REPOSITORY
       THEN Exit1 /\ raised_in' = "get_repo_and_pr"
       ELSE IF ~IntParses(RefSegment2(env.GITHUB_REF))
       THEN Raise("ValueError", "get_repo_and_pr")
       ELSE pc' = "do_code_review" /\ UNCHANGED <<exit_status, exc, raised_in>>
    /\ UNCHANGED <<env, changed_files, idx, comments, skipped_files, calls>>

\* do_code_review up to the for loop: get_repo, get_pull, get_files.  A
\* GithubException of any of the three is not caught.
HostOps == <<"get_repo", "get_pull", "get_files">>

do_code_review_fetch ==
    /\ pc = "do_code_review"
    /\ \/ \E k \in 1..3 :
            /\ calls' = calls \o [j \in 1..k |->
                           IF j = k THEN FailedHostCall(HostOps[j])
                           ELSE HostCall(HostOps[j])]
            /\ Raise("GithubException", "do_code_review")
            /\ UNCHANGED changed_files
       \/ \E files \in FileLists :
            /\ calls' = calls \o [j \in 1..3 |-> HostCall(HostOps[j])]
            /\ changed_files' = files
            /\ pc' = IF Len(files) = 0 THEN "submit_review" ELSE "for_item"
            /\ UNCHANGED <<exit_status, exc, raised_in>>
    /\ UNCHANGED <<env, idx, comments, skipped_files>>

\* The for loop moves to the next item, or ends.
NextItem ==
    /\ idx' = idx + 1
    /\ pc' = IF idx + 1 > Len(changed_files) THEN "submit_review" ELSE "for_item"
    /\ UNCHANGED <<exit_status, exc, raised_in>>

\* One call of submit_to_gpt for the current item and the test that follows
\* it; "again" is the branch taken when the reply has no comments.
Attempt(reply, again) ==
    LET r == submit_to_gpt(reply)
        v == r.value
    IN  IF r.raised
        THEN /\ calls' = Append(calls, CompletionCall(idx, "raise", <<>>))
             /\ Raise("OpenAIError", "submit_to_gpt")
             /\ UNCHANGED <<idx, comments, skipped_files>>
        ELSE IF InRaises(v) \/ (InComments(v) /\ IndexRaises(v))
        THEN /\ calls' = Append(calls, CompletionCall(idx, "crash", <<>>))
             /\ Raise("TypeError", "do_code_review")
             /\ UNCHANGED <<idx, comments, skipped_files>>
        ELSE IF InComments(v)
        THEN /\ calls' = Append(calls, CompletionCall(idx, "ok", v.comments))
             /\ comments' = Append(comments, json_dumps(v.comments))
             /\ NextItem
             /\ UNCHANGED skipped_files
        ELSE /\ calls' = Append(calls, CompletionCall(idx, "fail", <<>>))
             /\ again

\* One iteration of the for loop, up to the first reply.
do_code_review_item ==
    /\ pc = "for_item"
    /\ LET item == changed_files[idx]
       IN  CASE Filter(item) = "SkippedEmpty" ->
                    /\ NextItem
                    /\ UNCHANGED <<comments, skipped_files, calls>>
             [] Filter(item) = "SkippedTooLarge" ->
                    /\ skipped_files' = Append(skipped_files, item.filename)
                    /\ NextItem
                    /\ UNCHANGED <<comments, calls>>
             [] OTHER ->
                    \E reply \in Replies(item.filename) :
                        Attempt(reply,
                                /\ pc' = "retry"
                                /\ UNCHANGED <<idx, comments, skipped_files,
                                               exit_status, exc, raised_in>>)
    /\ UNCHANGED <<env, changed_files>>

do_code_review_retry_again ==
    /\ pc = "retry"
    /\ \E reply \in Replies(changed_files[idx].filename) :
            Attempt(reply,
                    /\ pc' = "retry"
                    /\ UNCHANGED <<idx, comments, skipped_files,
                                   exit_status, exc, raised_in>>)
    /\ UNCHANGED <<env, changed_files>>

\* The second call of submit_to_gpt for the current item.
do_code_review_retry ==
    /\ pc = "retry"
    /\ \E reply \in Replies(changed_files[idx].filename) :
            Attempt(reply,
                    /\ skipped_files' =
                           Append(skipped_files, changed_files[idx].filename)
                    /\ NextItem
                    /\ UNCHANGED comments)
    /\ UNCHANGED <<env, changed_files>>

\* review_body: the fixed text, then the skipped files if there are any.
review_body(skipped) == <<"Salacious has reviewed your code">> \o skipped

submit_review_guarded ==
    /\ pc = "submit_review"
    /\ IF ~env.GITHUB_TOKEN
       THEN Exit1 /\ raised_in' = "submit_review" /\ UNCHANGED calls
       ELSE IF comments # <<>> /\ ~literal_eval_ok(comments[1])
       THEN Raise("ValueError", "submit_review") /\ UNCHANGED calls
       ELSE \E result \in {"ok", "rejected"} :
               /\ calls' = Append(calls,
                      Call("create_review", 0, result,
                           IF comments = <<>> THEN <<>>
                           ELSE literal_eval(comments[1]),
                           "COMMENT", review_body(skipped_files)))
               /\ pc' = "done"
               /\ exit_status' = 0
               /\ UNCHANGED <<exc, raised_in>>
    /\ UNCHANGED <<env, changed_files, idx, comments, skipped_files>>

\* The end of do_code_review and submit_review; main returns after it.
submit_review ==
    /\ pc = "submit_review"
    /\ IF ~env.GITHUB_TOKEN
       THEN Exit1 /\ raised_in' = "submit_review" /\ UNCHANGED calls
       ELSE IF comments = <<>>
       THEN Raise("IndexError", "submit_review") /\ UNCHANGED calls
       ELSE IF ~literal_eval_ok(comments[1])
       THEN Raise("ValueError", "submit_review") /\ UNCHANGED calls
       ELSE \E result \in {"ok", "rejected"} :
               \* a GithubException of create_review is caught and logged
               /\ calls' = Append(calls,
                      Call("create_review", 0, result,
                           literal_eval(comments[1]), "COMMENT",
                           review_body(skipped_files)))
               /\ pc' = "done"
               /\ exit_status' = 0
               /\ UNCHANGED <<exc, raised_in>>
    /\ UNCHANGED <<env, changed_files, idx, comments, skipped_files>>

Next ==
    \/ set_openai_key
    \/ get_github_session
    \/ get_repo_and_pr
    \/ do_code_review_fetch
    \/ do_code_review_item
    \/ do_code_review_retry
    \/ submit_review

Spec == Init /\ [][Next]_vars

\* The run is one sequential process: a step that is enabled is taken.
FairSpec == Spec /\ WF_vars(Next)

----------------------------------------------------------------------------
\* Views of the state used by the properties

NumFiles == Len(changed_files)

IsCompletion(c) == c.op = "ChatCompletion.create"

\* The submit_to_gpt calls made for file i, in order.
CompletionsOf(i) == SelectSeq(calls, LAMBDA c : IsCompletion(c) /\ c.file = i)

Reviews == SelectSeq(calls, LAMBDA c : c.op = "create_review")

Count(x, s) == Cardinality({k \in 1..Len(s) : s[k] = x})

Terminated == pc \in {"done", "exited", "crashed"}

\* The for loop of do_code_review has run to its end.
LoopFinished ==
    \/ pc \in {"submit_review", "done"}
    \/ pc \in {"crashed", "exited"} /\ raised_in = "submit_review"

Accepted(i) == \E k \in 1..Len(calls) :
    IsCompletion(calls[k]) /\ calls[k].file = i /\ calls[k].result = "ok"

\* The per-file comment lists of the accepted files, joined in call order.
RECURSIVE AcceptedConcat(_)
AcceptedConcat(k) ==
    IF k = 0 THEN <<>>
    ELSE AcceptedConcat(k - 1) \o
         (IF IsCompletion(calls[k]) /\ calls[k].result = "ok"
          THEN calls[k].comments ELSE <<>>)

PatchPresent(i) == changed_files[i].patch # None
WithinBudget(i) == changed_files[i].patch <= MAX_TOKENS

EnvMissing ==
    \/ ~env.OPENAI_API_KEY
    \/ ~env.GITHUB_TOKEN
    \/ env.GITHUB_REF = ""
    \/ ~env.GITHUB_REPOSITORY

----------------------------------------------------------------------------
\* C1: one-shot retry.  For every file that reached the Requester, once the
\* file is dealt with (or the run has ended) submit_to_gpt was called exactly
\* once if the first reply had comments and exactly twice otherwise; two
\* failures put the filename in skipped_files and add no comments, a failure
\* followed by a success adds the comments and does not skip the file.
C1_RetryPolicy ==
    \A i \in 1..NumFiles :
        LET a == CompletionsOf(i)
            name == changed_files[i].filename
        IN  (Len(a) > 0 /\ (Terminated \/ i < idx)) =>
                /\ Len(a) = IF a[1].result = "ok" THEN 1 ELSE 2
                /\ (Len(a) = 2 /\ a[2].result # "ok") =>
                        (Count(name, skipped_files) = 1 /\ ~Accepted(i))
                /\ (Len(a) = 2 /\ a[2].result = "ok") =>
                        Count(name, skipped_files) = 0

\* C2: the comments given to pr.create_review are the per-file comment lists
\* of all accepted files, joined in file-processing order.
C2_FlattenedComments ==
    \A k \in 1..Len(calls) :
        calls[k].op = "create_review" =>
            calls[k].comments = AcceptedConcat(Len(calls))

\* C3: when the loop has finished every changed file has exactly one outcome:
\* one entry in comments or one entry in skipped_files, never both or none.
C3_Partition ==
    LoopFinished =>
        /\ Len(comments) + Len(skipped_files) = NumFiles
        /\ \A i \in 1..NumFiles :
              LET n == Count(changed_files[i].filename, skipped_files)
              IN  \/ Accepted(i) /\ n = 0
                  \/ ~Accepted(i) /\ n = 1

\* C4: when the loop has finished, the files the filter rejects (patch absent
\* or longer than MAX_TOKENS) are in skipped_files, in processing order.
RejectedNames ==
    LET rejected == SelectSeq(changed_files,
                        LAMBDA f : f.patch = None \/ f.patch > MAX_TOKENS)
    IN  [k \in 1..Len(rejected) |-> rejected[k].filename]

C4_RejectedRecorded ==
    LoopFinished =>
        SelectSeq(skipped_files,
                  LAMBDA n : \E k \in 1..Len(RejectedNames) : RejectedNames[k] = n)
            = RejectedNames

\* C5: submit_to_gpt is called for a changed file only if its patch is present
\* and at most MAX_TOKENS long, and every such file the loop has dealt with
\* was given to submit_to_gpt.
C5_RequesterIffReviewable ==
    \A i \in 1..NumFiles :
        /\ Len(CompletionsOf(i)) > 0 => (PatchPresent(i) /\ WithinBudget(i))
        /\ (i < idx /\ PatchPresent(i) /\ WithinBudget(i)) =>
                Len(CompletionsOf(i)) > 0

\* A patch of exactly MAX_TOKENS was sent; an absent patch and an oversized
\* patch were passed over without a call.
C5_Witness ==
    /\ \E i \in 1..NumFiles :
          changed_files[i].patch = MAX_TOKENS /\ Len(CompletionsOf(i)) > 0
    /\ \E i \in 1..NumFiles :
          i < idx /\ changed_files[i].patch = None /\ Len(CompletionsOf(i)) = 0
    /\ \E i \in 1..NumFiles :
          i < idx /\ changed_files[i].patch > MAX_TOKENS
                  /\ Len(CompletionsOf(i)) = 0

\* C6: a failed completion call (any error of the API, a reply that is not
\* JSON or has no comments field) is contained: no exception leaves
\* submit_to_gpt or the per-file loop.
C6_FailuresContained ==
    ~(pc = "crashed" /\ raised_in \in {"submit_to_gpt", "do_code_review"}
        /\ \E k \in 1..Len(calls) : IsCompletion(calls[k]))

\* C7: with one of the four variables missing the run ends with exit status 1
\* and calls neither the hosting platform nor the completion API.
C7_FailFast ==
    /\ [](EnvMissing =>
            /\ calls = <<>>
            /\ pc \in {"set_openai_key", "get_github_session",
                       "get_repo_and_pr", "exited"}
            /\ exit_status = IF pc = "exited" THEN 1 ELSE -1)
    /\ (EnvMissing ~> (pc = "exited" /\ exit_status = 1))

\* The last of the four checks ended the run.
C7_Witness ==
    /\ pc = "exited"
    /\ raised_in = "get_repo_and_pr"
    /\ env.OPENAI_API_KEY /\ env.GITHUB_TOKEN /\ env.GITHUB_REF # ""
    /\ ~env.GITHUB_REPOSITORY

\* C8: a run that got past the startup checks and fetched the changed files
\* ends with exit status 0, whatever happened to the files.
C8_ExitZero ==
    (Terminated /\ \E k \in 1..Len(calls) :
                      calls[k].op = "get_files" /\ calls[k].result = "ok")
        => exit_status = 0

\* C9: completion calls follow the order of the changed files, at most two
\* per file; create_review is called at most once, as a COMMENT review, as the
\* last call of the run and after the loop has dealt with every file.
C9_CallOrder ==
    /\ \A j, k \in 1..Len(calls) :
          (j < k /\ IsCompletion(calls[j]) /\ IsCompletion(calls[k]))
              => calls[j].file <= calls[k].file
    /\ \A i \in 1..NumFiles : Len(CompletionsOf(i)) <= 2
    /\ Len(Reviews) <= 1
    /\ \A k \in 1..Len(calls) :
          calls[k].op = "create_review" =>
              /\ calls[k].event = "COMMENT"
              /\ k = Len(calls)
              /\ idx = NumFiles + 1
              /\ pc = "done"

\* A review was posted after a file that needed both attempts and a later
\* file that was sent as well.
C9_Witness ==
    /\ Len(Reviews) = 1
    /\ \E i, j \in 1..NumFiles :
          i < j /\ Len(CompletionsOf(i)) = 2 /\ Len(CompletionsOf(j)) > 0

\* C10: submit_review with an empty comments list raises IndexError before
\* create_review is called; nothing catches it and no review is posted.
C10_EmptyCommentsRaise ==
    [][(pc = "submit_review" /\ comments = <<>>) =>
          /\ pc' = "crashed"
          /\ exc' = "IndexError"
          /\ raised_in' = "submit_review"
          /\ exit_status' = 1
          /\ calls' = calls]_vars

\* The run died at comments[0] with files skipped and no review posted.
C10_Witness ==
    /\ pc = "crashed"
    /\ exc = "IndexError"
    /\ skipped_files # <<>>
    /\ Len(Reviews) = 0

====
